---- MODULE Spec2Model ----
(***************************************************************************)
(* The drinks catalogue service of src/app.py: one table (DrinkService)    *)
(* behind eight HTTP handlers.  The persisted table is `catalog`; every    *)
(* handler is translated from its Python body.                             *)
(*                                                                         *)
(* Conventions                                                             *)
(*  - A text value is a sequence of one-character strings, so that the     *)
(*    parsers (int, float) and the LIKE matcher work on characters.        *)
(*  - A form / query-string is a function from the names of the fields     *)
(*    that are PRESENT to their text; an absent field is not in DOMAIN.    *)
(*  - A nullable column holds NULL (<<>>) or Some(v) (<<v>>).              *)
(*  - A price is held in tenths (fixed point): float("1.5") is 15 and      *)
(*    int("2") stored in the price column is 20.  Texts with more than     *)
(*    one fractional digit are outside the inputs drawn here.              *)
(***************************************************************************)
EXTENDS Integers, Sequences, FiniteSets, TLC

VARIABLES
    catalog,   \* the rows of table drink_service that are committed
    session,   \* db.session of the request in flight: its dirty objects
    req,       \* the request being served by the worker ([op |-> "none"]: none)
    resp,      \* the response the handler returned for req
    before,    \* catalog as it was when the worker picked req up
    commits,   \* number of db.session.commit() calls made for req
    md         \* the thread serving GET /drinks/max_duration

vars == <<catalog, session, req, resp, before, commits, md>>

(***************************************************************************)
(* Bounds of the model.                                                    *)
(***************************************************************************)
\* highest primary key the table is let to hand out
MaxId == 2
\* requests another thread may complete between the two statements of
\* get_max_duration
MaxInterleave == 1

(***************************************************************************)
(* Text, and the conversions the handlers apply to it.                     *)
(***************************************************************************)
NULL == <<>>
Some(v) == <<v>>

Digits == {"0", "1", "2", "3", "4", "5", "6", "7", "8", "9"}

DigitVal(c) ==
    CASE c = "0" -> 0 [] c = "1" -> 1 [] c = "2" -> 2 [] c = "3" -> 3
      [] c = "4" -> 4 [] c = "5" -> 5 [] c = "6" -> 6 [] c = "7" -> 7
      [] c = "8" -> 8 [] c = "9" -> 9

AllDigits(s) == \A i \in 1..Len(s) : s[i] \in Digits

RECURSIVE DigitsVal(_)
DigitsVal(s) ==
    IF s = <<>> THEN 0
    ELSE 10 * DigitsVal(SubSeq(s, 1, Len(s) - 1)) + DigitVal(s[Len(s)])

\* int(text) succeeds: a non-empty run of decimal digits (signs, blanks and
\* digit separators, which int() also takes, are not among the texts drawn).
IntOk(s) == Len(s) >= 1 /\ AllDigits(s)
\* int(text)
Int_(s) == DigitsVal(s)

\* position of the decimal point of s, 0 when it has none
DotAt(s) ==
    IF \E i \in 1..Len(s) : s[i] = "."
    THEN CHOOSE i \in 1..Len(s) : s[i] = "." /\ \A j \in 1..(i - 1) : s[j] # "."
    ELSE 0

\* float(text) succeeds: digits, optionally with one point among them
\* (exponents, signs, inf and nan are not among the texts drawn).
FloatOk(s) ==
    \/ IntOk(s)
    \/ /\ DotAt(s) > 0
       /\ Len(s) >= 2
       /\ AllDigits(SubSeq(s, 1, DotAt(s) - 1))
       /\ AllDigits(SubSeq(s, DotAt(s) + 1, Len(s)))

\* float(text), in tenths
Float_(s) ==
    IF DotAt(s) = 0 THEN 10 * DigitsVal(s)
    ELSE 10 * DigitsVal(SubSeq(s, 1, DotAt(s) - 1))
         + (IF DotAt(s) < Len(s) THEN DigitVal(s[DotAt(s) + 1]) ELSE 0)

\* an integer stored in the price column, in tenths
IntPrice(n) == 10 * n

\* `if v:` / `not v` on the result of form.get(k) / args.get(k): None and ""
\* are falsy.
Truthy(f, k) == k \in DOMAIN f /\ f[k] # <<>>

\* SQL lower() on one character, and on a text
LowerChar(c) ==
    CASE c = "T" -> "t" [] c = "E" -> "e" [] OTHER -> c

Lower(s) == [i \in 1..Len(s) |-> LowerChar(s[i])]

\* SQL  s LIKE p : % matches any run of characters, _ any one character.
RECURSIVE Like(_, _)
Like(s, p) ==
    IF p = <<>> THEN s = <<>>
    ELSE IF Head(p) = "%"
         THEN Like(s, Tail(p)) \/ (s # <<>> /\ Like(Tail(s), p))
    ELSE IF Head(p) = "_"
         THEN s # <<>> /\ Like(Tail(s), Tail(p))
    ELSE s # <<>> /\ Head(s) = Head(p) /\ Like(Tail(s), Tail(p))

\* DrinkService.name.ilike(f'%{name}%') : lower(name) LIKE lower('%' + pat + '%')
ILikeContains(stored, pat) ==
    Like(Lower(stored), Lower(<<"%">> \o pat \o <<"%">>))

(***************************************************************************)
(* The table.                                                              *)
(***************************************************************************)
DrinkService(i, n, d, p, u) ==
    [id |-> i, name |-> n, description |-> d, price |-> p, duration |-> u]

IdsOf(cat) == {r.id : r \in cat}

\* the primary key an INSERT gets: one more than the largest rowid in use
NextId(cat) ==
    IF cat = {} THEN 1
    ELSE (CHOOSE i \in IdsOf(cat) : \A j \in IdsOf(cat) : j <= i) + 1

\* DrinkService.query.get(drink_id): the session's object if it holds one,
\* else the committed row; a set of at most one row
Get(cat, sess, i) ==
    IF \E s \in sess : s.id = i THEN {s \in sess : s.id = i}
    ELSE {r \in cat : r.id = i}

\* an attribute assignment on a loaded object marks it dirty in the session
Mark(sess, row) == {s \in sess : s.id # row.id} \cup {row}

\* Faulty variant of Flush: the dirty objects are INSERTed beside the rows
\* they were loaded from.
Flush_AsInsert(cat, sess) == cat \cup sess

\* the flush of a commit: UPDATE ... WHERE id = ? for every dirty object
Flush(cat, sess) ==
    {r \in cat : \A s \in sess : s.id # r.id}
        \cup {s \in sess : \E r \in cat : r.id = s.id}

\* rows in store order (by rowid)
RECURSIVE InOrder(_)
InOrder(rows) ==
    IF rows = {} THEN <<>>
    ELSE LET first == CHOOSE r \in rows : \A q \in rows : r.id <= q.id
         IN  <<first>> \o InOrder(rows \ {first})

\* what a handler leaves behind
Result(status, body, cat, sess, n) ==
    [status |-> status, body |-> body, catalog |-> cat, session |-> sess,
     commits |-> n]

NoBody == <<>>

(***************************************************************************)
(* The handlers.  Each takes the committed table and the session it runs   *)
(* in, and returns the response with the table and session it leaves.      *)
(***************************************************************************)

\* Faulty variant of add_drink: duration goes through float() and is then
\* truncated, so "1.5" is accepted.
add_drink_FloatDuration(cat, sess, form) ==
    IF ~Truthy(form, "name") \/ ~Truthy(form, "price") \/ ~Truthy(form, "duration")
    THEN Result(400, NoBody, cat, sess, 0)
    ELSE IF ~(FloatOk(form["price"]) /\ FloatOk(form["duration"]))
    THEN Result(400, NoBody, cat, sess, 0)
    ELSE LET flushed == Flush(cat, sess)
             new_drink ==
                 DrinkService(NextId(flushed), form["name"],
                     IF "description" \in DOMAIN form
                     THEN Some(form["description"]) ELSE NULL,
                     Float_(form["price"]), Float_(form["duration"]) \div 10)
         IN  Result(201, NoBody, flushed \cup {new_drink}, {}, 1)

\* Faulty variant of add_drink: price is truncated to an integer, as
\* increase_price does.
add_drink_IntPrice(cat, sess, form) ==
    IF ~Truthy(form, "name") \/ ~Truthy(form, "price") \/ ~Truthy(form, "duration")
    THEN Result(400, NoBody, cat, sess, 0)
    ELSE IF ~(FloatOk(form["price"]) /\ IntOk(form["duration"]))
    THEN Result(400, NoBody, cat, sess, 0)
    ELSE LET flushed == Flush(cat, sess)
             new_drink ==
                 DrinkService(NextId(flushed), form["name"],
                     IF "description" \in DOMAIN form
                     THEN Some(form["description"]) ELSE NULL,
                     IntPrice(Float_(form["price"]) \div 10),
                     Int_(form["duration"]))
         IN  Result(201, NoBody, flushed \cup {new_drink}, {}, 1)

\* POST /drinks
add_drink(cat, sess, form) ==
    IF ~Truthy(form, "name") \/ ~Truthy(form, "price") \/ ~Truthy(form, "duration")
    THEN Result(400, NoBody, cat, sess, 0)
    ELSE IF ~(FloatOk(form["price"]) /\ IntOk(form["duration"]))
    THEN Result(400, NoBody, cat, sess, 0)
    ELSE LET flushed == Flush(cat, sess)
             new_drink ==
                 DrinkService(NextId(flushed), form["name"],
                     IF "description" \in DOMAIN form
                     THEN Some(form["description"]) ELSE NULL,
                     Float_(form["price"]), Int_(form["duration"]))
         IN  Result(201, NoBody, flushed \cup {new_drink}, {}, 1)

\* Faulty variant of delete_drink: db.session.commit() is missing, so the
\* DELETE is rolled back with the session.
delete_drink_NoCommit(cat, sess, drink_id) ==
    LET drink == Get(cat, sess, drink_id)
    IN  IF drink = {}
        THEN Result(404, NoBody, cat, sess, 0)
        ELSE Result(204, NoBody, cat, sess, 0)

\* DELETE /drinks/<drink_id>
delete_drink(cat, sess, drink_id) ==
    LET drink == Get(cat, sess, drink_id)
    IN  IF drink = {}
        THEN Result(404, NoBody, cat, sess, 0)
        ELSE Result(204, NoBody,
                    {r \in Flush(cat, sess) : r.id # drink_id}, {}, 1)

\* the numeric query parameters of GET /drinks that are applied
FilterParseOk(args) ==
    /\ Truthy(args, "min_price") => FloatOk(args["min_price"])
    /\ Truthy(args, "max_price") => FloatOk(args["max_price"])
    /\ Truthy(args, "min_duration") => IntOk(args["min_duration"])
    /\ Truthy(args, "max_duration") => IntOk(args["max_duration"])

\* the WHERE clause GET /drinks builds
FilterMatch(r, args) ==
    /\ Truthy(args, "name") => ILikeContains(r.name, args["name"])
    /\ Truthy(args, "min_price") => r.price >= Float_(args["min_price"])
    /\ Truthy(args, "max_price") => r.price <= Float_(args["max_price"])
    /\ Truthy(args, "min_duration") => r.duration >= Int_(args["min_duration"])
    /\ Truthy(args, "max_duration") => r.duration <= Int_(args["max_duration"])

\* GET /drinks ; float() and int() are not guarded: a text they reject
\* raises out of the handler (500)
filter_drinks(cat, sess, args) ==
    IF ~FilterParseOk(args)
    THEN Result(500, NoBody, cat, sess, 0)
    ELSE Result(200, InOrder({r \in Flush(cat, sess) : FilterMatch(r, args)}),
                cat, sess, 0)

\* PATCH /drinks/<drink_id> ; int(new_price) is not guarded: None raises
\* TypeError and a text that is no integer raises ValueError (500)
increase_price(cat, sess, drink_id, form) ==
    LET drink == Get(cat, sess, drink_id)
    IN  IF drink = {}
        THEN Result(404, NoBody, cat, sess, 0)
        ELSE IF "price" \notin DOMAIN form \/ ~IntOk(form["price"])
        THEN Result(500, NoBody, cat, sess, 0)
        ELSE LET d == CHOOSE x \in drink : TRUE
                 dirty == Mark(sess, [d EXCEPT !.price = IntPrice(Int_(form["price"]))])
             IN  Result(200, NoBody, Flush(cat, dirty), {}, 1)

\* Faulty variant of update_drink: description is read with form.get and
\* always assigned, so an absent description becomes NULL.
update_drink_ClearsAbsent(cat, sess, drink_id, form) ==
    LET drink == Get(cat, sess, drink_id)
    IN  IF drink = {}
        THEN Result(404, NoBody, cat, sess, 0)
        ELSE
        LET d0 == CHOOSE x \in drink : TRUE
            d1 == IF "name" \in DOMAIN form
                  THEN [d0 EXCEPT !.name = form["name"]] ELSE d0
            d2 == IF "description" \in DOMAIN form
                  THEN [d1 EXCEPT !.description = Some(form["description"])]
                  ELSE [d1 EXCEPT !.description = NULL]
            s2 == IF d2 # d0 THEN Mark(sess, d2) ELSE sess
            d3 == IF "price" \in DOMAIN form
                  THEN [d2 EXCEPT !.price = Float_(form["price"])] ELSE d2
            s3 == IF d3 # d0 THEN Mark(sess, d3) ELSE sess
            d4 == IF "duration" \in DOMAIN form
                  THEN [d3 EXCEPT !.duration = Int_(form["duration"])] ELSE d3
            s4 == IF d4 # d0 THEN Mark(sess, d4) ELSE sess
        IN  IF "price" \in DOMAIN form /\ ~FloatOk(form["price"])
            THEN Result(400, NoBody, cat, s2, 0)
            ELSE IF "duration" \in DOMAIN form /\ ~IntOk(form["duration"])
            THEN Result(400, NoBody, cat, s3, 0)
            ELSE Result(200, NoBody, Flush(cat, s4), {}, 1)

\* Faulty variant of update_drink: db.session.commit() is called after the
\* text fields are assigned, before price and duration are converted.
update_drink_CommitsEarly(cat, sess, drink_id, form) ==
    LET drink == Get(cat, sess, drink_id)
    IN  IF drink = {}
        THEN Result(404, NoBody, cat, sess, 0)
        ELSE
        LET d0 == CHOOSE x \in drink : TRUE
            d1 == IF "name" \in DOMAIN form
                  THEN [d0 EXCEPT !.name = form["name"]] ELSE d0
            d2 == IF "description" \in DOMAIN form
                  THEN [d1 EXCEPT !.description = Some(form["description"])]
                  ELSE d1
            s2 == IF d2 # d0 THEN Mark(sess, d2) ELSE sess
            c2 == Flush(cat, s2)
            d3 == IF "price" \in DOMAIN form
                  THEN [d2 EXCEPT !.price = Float_(form["price"])] ELSE d2
            s3 == IF d3 # d2 THEN {d3} ELSE {}
            d4 == IF "duration" \in DOMAIN form
                  THEN [d3 EXCEPT !.duration = Int_(form["duration"])] ELSE d3
            s4 == IF d4 # d2 THEN {d4} ELSE {}
        IN  IF "price" \in DOMAIN form /\ ~FloatOk(form["price"])
            THEN Result(400, NoBody, c2, {}, 1)
            ELSE IF "duration" \in DOMAIN form /\ ~IntOk(form["duration"])
            THEN Result(400, NoBody, c2, s3, 1)
            ELSE Result(200, NoBody, Flush(c2, s4), {}, 2)

\* PUT /drinks/<drink_id>
update_drink(cat, sess, drink_id, form) ==
    LET drink == Get(cat, sess, drink_id)
    IN  IF drink = {}
        THEN Result(404, NoBody, cat, sess, 0)
        ELSE
        LET d0 == CHOOSE x \in drink : TRUE
            d1 == IF "name" \in DOMAIN form
                  THEN [d0 EXCEPT !.name = form["name"]] ELSE d0
            d2 == IF "description" \in DOMAIN form
                  THEN [d1 EXCEPT !.description = Some(form["description"])]
                  ELSE d1
            s2 == IF d2 # d0 THEN Mark(sess, d2) ELSE sess
            d3 == IF "price" \in DOMAIN form
                  THEN [d2 EXCEPT !.price = Float_(form["price"])] ELSE d2
            s3 == IF d3 # d0 THEN Mark(sess, d3) ELSE sess
            d4 == IF "duration" \in DOMAIN form
                  THEN [d3 EXCEPT !.duration = Int_(form["duration"])] ELSE d3
            s4 == IF d4 # d0 THEN Mark(sess, d4) ELSE sess
        IN  IF "price" \in DOMAIN form /\ ~FloatOk(form["price"])
            THEN Result(400, NoBody, cat, s2, 0)
            ELSE IF "duration" \in DOMAIN form /\ ~IntOk(form["duration"])
            THEN Result(400, NoBody, cat, s3, 0)
            ELSE Result(200, NoBody, Flush(cat, s4), {}, 1)

\* GET /drinks/max_duration, first statement: SELECT max(duration)
MaxDurationScalar(cat) ==
    IF cat = {} THEN NULL
    ELSE Some(CHOOSE m \in {r.duration : r \in cat} :
                  \A r \in cat : r.duration <= m)

\* second statement, filter_by(duration=max_duration).first(), and the
\* response built from it
MaxDurationFirst(cat, max_duration) ==
    LET rows == IF max_duration = NULL THEN {}
                ELSE {r \in cat : r.duration = max_duration[1]}
    IN  IF rows # {}
        THEN [max_duration |-> max_duration[1],
              drink_name |-> InOrder(rows)[1].name]
        ELSE [message |-> "No drinks found"]

\* the end of a request: Flask-SQLAlchemy removes the scoped session, which
\* rolls back whatever was not committed
Teardown(sess) == {}

(***************************************************************************)
(* The requests drawn.                                                     *)
(***************************************************************************)
\* a field k that is absent, or present with one of the texts of S
Field(k, S) == {<<>>} \cup {k :> t : t \in S}

NameTexts == {<<>>, <<"T", "e">>}
DescriptionTexts == {<<"d">>}
PriceTexts == {<<>>, <<"x">>, <<"1", ".", "5">>, <<"2">>}
DurationTexts == {<<>>, <<"1", ".", "5">>, <<"1">>, <<"2">>}

\* the forms of POST /drinks and PUT /drinks/<id>
DrinkForms ==
    {n @@ d @@ p @@ u : n \in Field("name", NameTexts),
                        d \in Field("description", DescriptionTexts),
                        p \in Field("price", PriceTexts),
                        u \in Field("duration", DurationTexts)}

\* the forms of PATCH /drinks/<id>
PriceForms == Field("price", PriceTexts)

\* the query strings of GET /drinks
FilterArgs ==
    {n @@ a @@ b @@ c @@ d :
        n \in Field("name", {<<>>, <<"t">>, <<"_">>}),
        a \in Field("min_price", {<<"2">>}),
        b \in Field("max_price", {<<"1", ".", "5">>, <<"x">>}),
        c \in Field("min_duration", {<<"2">>}),
        d \in Field("max_duration", {<<"1">>})}

PathIds == 1..MaxId

NoRequest == [op |-> "none", id |-> 0, form |-> <<>>]
NoResponse == [status |-> 0, body |-> NoBody]
MdIdle ==
    [pc |-> "idle", max |-> NULL, seen |-> {}, n |-> 0, body |-> [message |-> ""]]

(***************************************************************************)
(* The state machine: a worker picks a request up, the handler runs to its *)
(* return, and the request is torn down.                                   *)
(***************************************************************************)
Init ==
    /\ catalog = {}
    /\ session = {}
    /\ req = NoRequest
    /\ resp = NoResponse
    /\ before = {}
    /\ commits = 0
    /\ md = MdIdle

Serve(r, res) ==
    /\ req' = r
    /\ resp' = [status |-> res.status, body |-> res.body]
    /\ catalog' = res.catalog
    /\ session' = res.session
    /\ commits' = res.commits
    /\ before' = catalog

AddDrink ==
    /\ req = NoRequest
    /\ \E form \in DrinkForms :
        LET res == add_drink(catalog, session, form)
        IN  /\ res.status = 201 => NextId(catalog) <= MaxId
            /\ Serve([op |-> "POST", id |-> 0, form |-> form], res)

DeleteDrink ==
    /\ req = NoRequest
    /\ \E i \in PathIds :
        Serve([op |-> "DELETE", id |-> i, form |-> <<>>],
              delete_drink(catalog, session, i))

FilterDrinks ==
    /\ req = NoRequest
    /\ \E args \in FilterArgs :
        Serve([op |-> "GET", id |-> 0, form |-> args],
              filter_drinks(catalog, session, args))

IncreasePrice ==
    /\ req = NoRequest
    /\ \E i \in PathIds, form \in PriceForms :
        Serve([op |-> "PATCH", id |-> i, form |-> form],
              increase_price(catalog, session, i, form))

UpdateDrink ==
    /\ req = NoRequest
    /\ \E i \in PathIds, form \in DrinkForms :
        Serve([op |-> "PUT", id |-> i, form |-> form],
              update_drink(catalog, session, i, form))

\* the response is sent and the request's session removed
TeardownRequest ==
    /\ req # NoRequest
    /\ req' = NoRequest
    /\ resp' = NoResponse
    /\ session' = Teardown(session)
    /\ commits' = 0
    /\ before' = catalog
    /\ UNCHANGED catalog

\* GET /drinks/max_duration: its two statements, and its return
GetMaxDurationScalar ==
    /\ md.pc = "idle"
    /\ md' = [pc |-> "scalar", max |-> MaxDurationScalar(catalog),
              seen |-> {catalog}, n |-> 0, body |-> [message |-> ""]]
    /\ UNCHANGED <<catalog, session, req, resp, before, commits>>

GetMaxDurationFirst ==
    /\ md.pc = "scalar"
    /\ md' = [md EXCEPT !.pc = "first",
                        !.body = MaxDurationFirst(catalog, md.max)]
    /\ UNCHANGED <<catalog, session, req, resp, before, commits>>

GetMaxDurationReturn ==
    /\ md.pc = "first"
    /\ md' = MdIdle
    /\ UNCHANGED <<catalog, session, req, resp, before, commits>>

\* one worker: a request runs to its end before the next is picked up
OneAtATime == md.pc = "idle" /\ md' = md

Next ==
    \/ OneAtATime /\ AddDrink
    \/ OneAtATime /\ DeleteDrink
    \/ OneAtATime /\ FilterDrinks
    \/ OneAtATime /\ IncreasePrice
    \/ OneAtATime /\ UpdateDrink
    \/ OneAtATime /\ TeardownRequest
    \/ req = NoRequest /\ GetMaxDurationScalar
    \/ GetMaxDurationFirst
    \/ GetMaxDurationReturn

Spec == Init /\ [][Next]_vars

\* threads: requests of other threads complete between the two statements of
\* get_max_duration (at most MaxInterleave of them); md.seen collects every
\* state the table is in while get_max_duration runs
Observe(m, cat, served) ==
    IF m.pc = "scalar"
    THEN [m EXCEPT !.seen = @ \cup {cat}, !.n = @ + (IF served THEN 1 ELSE 0)]
    ELSE m

\* a request is picked up, or torn down, beside get_max_duration
Admit(serving) ==
    /\ md.pc # "first"
    /\ (serving /\ md.pc = "scalar") => md.n < MaxInterleave

Observed == md' = Observe(md, catalog', req' # NoRequest)

NextThreaded ==
    \/ Admit(TRUE) /\ AddDrink /\ Observed
    \/ Admit(TRUE) /\ DeleteDrink /\ Observed
    \/ Admit(TRUE) /\ FilterDrinks /\ Observed
    \/ Admit(TRUE) /\ IncreasePrice /\ Observed
    \/ Admit(TRUE) /\ UpdateDrink /\ Observed
    \/ Admit(FALSE) /\ TeardownRequest /\ Observed
    \/ req = NoRequest /\ GetMaxDurationScalar
    \/ GetMaxDurationFirst
    \/ GetMaxDurationReturn

SpecThreaded == Init /\ [][NextThreaded]_vars

(***************************************************************************)
(* Properties.  In a state where req is a request, resp, catalog, session  *)
(* and commits are what its handler left, and before is the table it       *)
(* started from.                                                           *)
(***************************************************************************)
RowOf(cat, i) == CHOOSE r \in cat : r.id = i

\* the value a form asks for in a nullable text column
SubmittedDescription(form) ==
    IF "description" \in DOMAIN form THEN Some(form["description"]) ELSE NULL

\* t occurs in s
Contains(s, t) ==
    \E i \in 0..(Len(s) - Len(t)) : SubSeq(s, i + 1, i + Len(t)) = t

\* GET /drinks with no query string, issued after the request in flight
ListAllNext == filter_drinks(catalog, Teardown(session), <<>>)

\* C1: every persisted Drink has a non-empty name, whatever requests were
\* served (PUT with any name included).
C1_NamesNonEmpty == \A r \in catalog : r.name # <<>>

\* C2: no two persisted Drinks share an id, and the ids in the table change
\* only by a successful Create (one fresh id more) or a successful Delete
\* (that id less): every other Drink keeps its id.
C2_IdsUniqueAndKept ==
    /\ Cardinality(IdsOf(catalog)) = Cardinality(catalog)
    /\ req # NoRequest =>
        IF req.op = "POST" /\ resp.status = 201
        THEN \E i \in IdsOf(catalog) \ IdsOf(before) :
                 IdsOf(catalog) = IdsOf(before) \cup {i}
        ELSE IF req.op = "DELETE" /\ resp.status = 204
        THEN IdsOf(catalog) = IdsOf(before) \ {req.id}
        ELSE /\ IdsOf(catalog) = IdsOf(before)
             /\ Cardinality(catalog) = Cardinality(before)

C2_Witness ==
    /\ req.op = "PUT"
    /\ resp.status = 200
    /\ Cardinality(catalog) = 2
    /\ catalog # before

\* C3: a Create whose name, price or duration is missing or empty, or whose
\* price or duration fails its conversion, is answered 400 and leaves the
\* table as it was.
CreateInvalid(form) ==
    \/ ~Truthy(form, "name")
    \/ ~Truthy(form, "price")
    \/ ~Truthy(form, "duration")
    \/ ~FloatOk(form["price"])
    \/ ~IntOk(form["duration"])

C3_InvalidCreateRejected ==
    (req.op = "POST" /\ CreateInvalid(req.form)) =>
        /\ resp.status = 400
        /\ catalog = before
        /\ commits = 0

C3_Witness ==
    /\ req.op = "POST"
    /\ Truthy(req.form, "name")
    /\ Truthy(req.form, "price")
    /\ FloatOk(req.form["price"])
    /\ Truthy(req.form, "duration")
    /\ ~IntOk(req.form["duration"])
    /\ resp.status = 400
    /\ before # {}

\* C4: a successful Create adds exactly one Drink, changes no other, and the
\* unfiltered list issued next holds the new Drink with the name, description,
\* price and duration submitted.
C4_CreateThenList ==
    (req.op = "POST" /\ resp.status = 201) =>
        /\ Cardinality(catalog) = Cardinality(before) + 1
        /\ before \subseteq catalog
        /\ ListAllNext.status = 200
        /\ \E k \in 1..Len(ListAllNext.body) :
            LET drink == ListAllNext.body[k]
            IN  /\ drink \notin before
                /\ drink.name = req.form["name"]
                /\ drink.description = SubmittedDescription(req.form)
                /\ drink.price = Float_(req.form["price"])
                /\ drink.duration = Int_(req.form["duration"])

C4_Witness ==
    /\ req.op = "POST"
    /\ resp.status = 201
    /\ before # {}
    /\ req.form["price"] = <<"1", ".", "5">>
    /\ "description" \in DOMAIN req.form

\* C5: Delete of an id that exists removes exactly that Drink, and a fetch of
\* the id issued next finds nothing; Delete of an id that does not exist is
\* answered 404 and leaves the table as it was.
C5_Delete ==
    req.op = "DELETE" =>
        IF req.id \in IdsOf(before)
        THEN /\ resp.status = 204
             /\ catalog = before \ {RowOf(before, req.id)}
             /\ Get(catalog, Teardown(session), req.id) = {}
        ELSE /\ resp.status = 404
             /\ catalog = before

C5_Witness ==
    /\ req.op = "DELETE"
    /\ resp.status = 204
    /\ Cardinality(before) = 2
    /\ Cardinality(catalog) = 1

\* C6: a successful PUT replaces exactly the fields present in the form and
\* leaves the absent fields, the id and every other Drink as they were.
C6_PutReplacesPresentFields ==
    (req.op = "PUT" /\ resp.status = 200) =>
        /\ req.id \in IdsOf(before)
        /\ req.id \in IdsOf(catalog)
        /\ LET old == RowOf(before, req.id)
               new == RowOf(catalog, req.id)
               form == req.form
           IN  /\ catalog \ {new} = before \ {old}
               /\ new.name = IF "name" \in DOMAIN form
                             THEN form["name"] ELSE old.name
               /\ new.description = IF "description" \in DOMAIN form
                                    THEN Some(form["description"])
                                    ELSE old.description
               /\ new.price = IF "price" \in DOMAIN form
                              THEN Float_(form["price"]) ELSE old.price
               /\ new.duration = IF "duration" \in DOMAIN form
                                 THEN Int_(form["duration"]) ELSE old.duration

C6_Witness ==
    /\ req.op = "PUT"
    /\ resp.status = 200
    /\ DOMAIN req.form = {"name", "price"}
    /\ Cardinality(before) = 2
    /\ RowOf(before, req.id).description # NULL
    /\ RowOf(catalog, req.id).name # RowOf(before, req.id).name
    /\ RowOf(catalog, req.id).price # RowOf(before, req.id).price

\* C7: a PATCH is answered 404 with the table unchanged when the id does not
\* exist, and otherwise 200 with only that Drink's price replaced (by the
\* integer part of the price sent, when it is a number); nothing else.
C7_PatchTwoOutcomes ==
    req.op = "PATCH" =>
        IF req.id \notin IdsOf(before)
        THEN resp.status = 404 /\ catalog = before
        ELSE /\ resp.status = 200
             /\ req.id \in IdsOf(catalog)
             /\ LET old == RowOf(before, req.id)
                    new == RowOf(catalog, req.id)
                IN  /\ catalog \ {new} = before \ {old}
                    /\ [new EXCEPT !.price = old.price] = old
                    /\ Truthy(req.form, "price") /\ FloatOk(req.form["price"])
                         => new.price = IntPrice(Float_(req.form["price"]) \div 10)

\* C8: the list holds exactly the Drinks that satisfy every filter supplied
\* (name: case-insensitive substring; prices and durations: inclusive bounds),
\* and the table is unchanged.  Stated for the query strings whose numbers
\* parse.
FilterSatisfied(r, args) ==
    /\ "name" \in DOMAIN args => Contains(Lower(r.name), Lower(args["name"]))
    /\ "min_price" \in DOMAIN args => r.price >= Float_(args["min_price"])
    /\ "max_price" \in DOMAIN args => r.price <= Float_(args["max_price"])
    /\ "min_duration" \in DOMAIN args => r.duration >= Int_(args["min_duration"])
    /\ "max_duration" \in DOMAIN args => r.duration <= Int_(args["max_duration"])

C8_FilterExact ==
    (req.op = "GET" /\ FilterParseOk(req.form)) =>
        /\ resp.status = 200
        /\ {resp.body[k] : k \in 1..Len(resp.body)}
               = {r \in before : FilterSatisfied(r, req.form)}
        /\ catalog = before

\* C9: get_max_duration answers "No drinks found" exactly when the table is
\* empty, and otherwise a duration no Drink exceeds with the name of a Drink
\* that has it -- of the table in at least one of the states it is in while
\* the request is served.
MaxDurationCorrect(body, cat) ==
    IF cat = {}
    THEN body = [message |-> "No drinks found"]
    ELSE /\ DOMAIN body = {"max_duration", "drink_name"}
         /\ \A r \in cat : r.duration <= body.max_duration
         /\ \E r \in cat : /\ r.duration = body.max_duration
                           /\ r.name = body.drink_name

C9_MaxDurationCorrect ==
    md.pc = "first" => \E cat \in md.seen : MaxDurationCorrect(md.body, cat)

\* C10: a PUT answered 400 leaves the table as it was although fields were
\* already assigned in memory; no request commits more than once; and once a
\* request is torn down nothing of its session is left for the next.
C10_FailedPutNotPersisted ==
    /\ (req.op = "PUT" /\ resp.status = 400) =>
           /\ catalog = before
           /\ commits = 0
           /\ Get(catalog, Teardown(session), req.id)
                  = {RowOf(before, req.id)}
    /\ commits <= 1
    /\ req = NoRequest => session = {}

C10_Witness ==
    /\ req.op = "PUT"
    /\ resp.status = 400
    /\ DOMAIN req.form = {"name", "description", "price", "duration"}
    /\ FloatOk(req.form["price"])
    /\ \E d \in session :
           /\ d.id = req.id
           /\ d # RowOf(before, req.id)
           /\ d.name = req.form["name"]
           /\ d.price = Float_(req.form["price"])

====
